---------------------------- MODULE Spec2Model ----------------------------
(***************************************************************************)
(* A model of the OpenAPI -> llm.txt conversion engine of                  *)
(* src/services/conversionService.ts: localConvertToLlmTxt (the Document   *)
(* Assembler), parseSchema (the Schema Describer) and generateExample      *)
(* (the Example Synthesizer), over the JavaScript values JSON.parse        *)
(* builds from the input text; and of the component App of src/App.tsx,    *)
(* which hands the text of an uploaded file to the engine.                 *)
(*                                                                         *)
(* JavaScript values are records of one shape, [k, s, n, e]:               *)
(*   k  the kind: "undefined", "null", "boolean", "number", "string",      *)
(*      "object", "array", and "throw" for an exception in flight;         *)
(*   s  the text of a string (the message of an exception);                *)
(*   n  the number (1/0 for true/false);                                   *)
(*   e  the own properties of an object or array, a sequence of            *)
(*      [key, val] in the order Object.entries enumerates them.            *)
(***************************************************************************)
EXTENDS Integers, Sequences, FiniteSets, TLC

(***************************************************************************)
(* Bounds of the model.                                                    *)
(***************************************************************************)
\* Frames the engine's call stack holds before it throws RangeError.
CallStackLimit == 7
\* The readings of the wall clock (new Date()) are 0..MaxClock.
MaxClock == 1
\* The generated object schemas declare up to MaxProps properties.
MaxProps == 2
\* The uploads the user starts in one run of the component.
MaxUploads == 2

(***************************************************************************)
(* JavaScript values.                                                      *)
(***************************************************************************)
Undef == [k |-> "undefined", s |-> "", n |-> 0, e |-> <<>>]
Null == [k |-> "null", s |-> "", n |-> 0, e |-> <<>>]
Bool(b) == [k |-> "boolean", s |-> "", n |-> IF b THEN 1 ELSE 0, e |-> <<>>]
Num(i) == [k |-> "number", s |-> "", n |-> i, e |-> <<>>]
Str(t) == [k |-> "string", s |-> t, n |-> 0, e |-> <<>>]
Obj(entries) == [k |-> "object", s |-> "", n |-> 0, e |-> entries]
Arr(entries) == [k |-> "array", s |-> "", n |-> 0, e |-> entries]
Throw(msg) == [k |-> "throw", s |-> msg, n |-> 0, e |-> <<>>]
Entry(key, val) == [key |-> key, val |-> val]

IsThrow(v) == v.k = "throw"
\* typeof v === 'object' && v !== null
IsObjectLike(v) == v.k \in {"object", "array"}
\* ToBoolean: what `if (v)`, `v || w` and `v ? a : b` test.
Truthy(v) ==
  CASE v.k \in {"undefined", "null"} -> FALSE
    [] v.k = "boolean" -> v.n = 1
    [] v.k = "number" -> v.n # 0
    [] v.k = "string" -> v.s # ""
    [] OTHER -> TRUE
\* a || b
Or(a, b) == IF Truthy(a) THEN a ELSE b

\* The keys that are array indices (canonical numeric strings): own
\* properties with such keys are enumerated first, in ascending order.
IndexKeys ==
  ("0" :> 0) @@ ("1" :> 1) @@ ("2" :> 2) @@ ("3" :> 3) @@
  ("200" :> 200) @@ ("404" :> 404)
IsIndexKey(key) == key \in DOMAIN IndexKeys

Keys(entries) == [i \in 1..Len(entries) |-> entries[i].key]
HasKey(entries, key) == \E i \in 1..Len(entries) : entries[i].key = key
KeyPos(entries, key) == CHOOSE i \in 1..Len(entries) : entries[i].key = key

\* OrdinaryOwnPropertyKeys: where a new key goes among the own properties.
InsertPos(entries, key) ==
  IF IsIndexKey(key)
  THEN Cardinality({i \in 1..Len(entries) :
                      /\ IsIndexKey(entries[i].key)
                      /\ IndexKeys[entries[i].key] < IndexKeys[key]}) + 1
  ELSE Len(entries) + 1

\* obj[key] = val on the own properties of an object: an existing key keeps
\* its place; a new one is enumerated after the index keys below it.
Put(entries, key, val) ==
  IF HasKey(entries, key)
  THEN [entries EXCEPT ![KeyPos(entries, key)].val = val]
  ELSE LET p == InsertPos(entries, key)
       IN  SubSeq(entries, 1, p - 1) \o <<Entry(key, val)>>
             \o SubSeq(entries, p, Len(entries))

\* v[key] where v is not null or undefined: own property or undefined.
\* (Strings are atoms here: their length and characters are not read.)
Prop(v, key) ==
  IF IsObjectLike(v) /\ HasKey(v.e, key)
  THEN v.e[KeyPos(v.e, key)].val
  ELSE Undef

\* v.key throws a TypeError when v is null or undefined: the test, and the
\* message.
Nullish(v) == v.k \in {"undefined", "null"}
ReadError(v) == "TypeError: Cannot read properties of " \o v.k

\* v?.key and v?.[key]
OptGet(v, key) ==
  IF IsThrow(v) THEN v
  ELSE IF v.k \in {"undefined", "null"} THEN Undef ELSE Prop(v, key)

\* Object.entries(v), Object.keys(v), Object.values(v) enumerate these;
\* the three throw a TypeError on null and undefined.
OwnEntries(v) == IF IsObjectLike(v) THEN v.e ELSE <<>>
CanEnumerate(v) == v.k \notin {"undefined", "null", "throw"}
EnumerateError == "TypeError: Cannot convert undefined or null to object"

\* An array literal [v1, ..., vn].
ArrayOf(vals) == Arr([i \in 1..Len(vals) |-> Entry(ToString(i - 1), vals[i])])
\* { ...a, ...b }: the properties of b put into a, one by one.
RECURSIVE PutAll(_, _)
PutAll(entries, more) ==
  IF more = <<>> THEN entries
  ELSE PutAll(Put(entries, more[1].key, more[1].val), Tail(more))

(***************************************************************************)
(* The input text, as its sequence of JSON lexemes, and JSON.parse.        *)
(* A lexeme is [t, s, n]: t is one of the six punctuators, "str", "num",   *)
(* "true", "false", "null", or "bad" for text that is no JSON lexeme.      *)
(***************************************************************************)
Tok(t) == [t |-> t, s |-> "", n |-> 0]
TStr(x) == [t |-> "str", s |-> x, n |-> 0]
TNum(i) == [t |-> "num", s |-> "", n |-> i]
TBad(x) == [t |-> "bad", s |-> x, n |-> 0]

ParseFail == [ok |-> FALSE, val |-> Undef, pos |-> 0]
ParseOk(val, pos) == [ok |-> TRUE, val |-> val, pos |-> pos]
TokAt(toks, i) == IF i <= Len(toks) THEN toks[i].t ELSE "eof"

RECURSIVE ParseValue(_, _), ParseMembers(_, _, _), ParseElements(_, _, _)
ParseValue(toks, i) ==
  LET t == TokAt(toks, i)
  IN  CASE t = "str" -> ParseOk(Str(toks[i].s), i + 1)
        [] t = "num" -> ParseOk(Num(toks[i].n), i + 1)
        [] t = "true" -> ParseOk(Bool(TRUE), i + 1)
        [] t = "false" -> ParseOk(Bool(FALSE), i + 1)
        [] t = "null" -> ParseOk(Null, i + 1)
        [] t = "{" -> IF TokAt(toks, i + 1) = "}"
                      THEN ParseOk(Obj(<<>>), i + 2)
                      ELSE ParseMembers(toks, i + 1, <<>>)
        [] t = "[" -> IF TokAt(toks, i + 1) = "]"
                      THEN ParseOk(Arr(<<>>), i + 2)
                      ELSE ParseElements(toks, i + 1, <<>>)
        [] OTHER -> ParseFail

\* member (',' member)* '}' : a repeated key keeps its first place and takes
\* the last value.
ParseMembers(toks, i, acc) ==
  IF TokAt(toks, i) # "str" \/ TokAt(toks, i + 1) # ":" THEN ParseFail
  ELSE LET r == ParseValue(toks, i + 2)
       IN  IF ~r.ok THEN ParseFail
           ELSE LET next == Put(acc, toks[i].s, r.val)
                IN  CASE TokAt(toks, r.pos) = "," ->
                           ParseMembers(toks, r.pos + 1, next)
                      [] TokAt(toks, r.pos) = "}" ->
                           ParseOk(Obj(next), r.pos + 1)
                      [] OTHER -> ParseFail

ParseElements(toks, i, acc) ==
  LET r == ParseValue(toks, i)
  IN  IF ~r.ok THEN ParseFail
      ELSE LET next == Append(acc, r.val)
           IN  CASE TokAt(toks, r.pos) = "," ->
                      ParseElements(toks, r.pos + 1, next)
                 [] TokAt(toks, r.pos) = "]" ->
                      ParseOk(ArrayOf(next), r.pos + 1)
                 [] OTHER -> ParseFail

\* JSON.parse(text): the value, or a SyntaxError when the text is not
\* exactly one JSON value.
JSONParse(toks) ==
  LET r == ParseValue(toks, 1)
  IN  IF r.ok /\ r.pos = Len(toks) + 1
      THEN r.val
      ELSE Throw("SyntaxError: Unexpected token")

(***************************************************************************)
(* Reference resolution, as generateExample and parseSchema both do it:    *)
(* schema.$ref.replace('#/', '').split('/'), then one optional-chained     *)
(* index per segment from the root.                                        *)
(***************************************************************************)
\* The schema names of the model's documents.
SchemaNames == {"Node", "Loop", "Pet", "Foo"}
\* The reference paths of the model's documents, as segment lists.
RefPaths ==
  {<<"components", "schemas", name>> : name \in SchemaNames}
    \cup {<<"definitions", name>> : name \in SchemaNames}
RECURSIVE JoinSegments(_)
JoinSegments(segs) ==
  IF Len(segs) = 1 THEN segs[1] ELSE segs[1] \o "/" \o JoinSegments(Tail(segs))
\* The text of a local reference, '#/a/b/c'.
RefString(segs) == "#/" \o JoinSegments(segs)
\* ref.replace('#/', '').split('/') on the reference texts above.
SplitRef(ref) == CHOOSE segs \in RefPaths : RefString(segs) = ref
IsRefString(v) == v.k = "string" /\ \E segs \in RefPaths : RefString(segs) = v.s

RECURSIVE Walk(_, _)
\* for (const segment of refPath) target = target?.[segment]
Walk(target, segs) ==
  IF segs = <<>> THEN target ELSE Walk(OptGet(target, segs[1]), Tail(segs))
\* The target of schema.$ref in root: undefined when a segment is missing.
\* A truthy $ref that is no string has no replace method.
ResolveRef(ref, root) ==
  IF IsRefString(ref) THEN Walk(root, SplitRef(ref.s))
  ELSE Throw("TypeError: schema.$ref.replace is not a function")

\* required.includes(key) on an array of names.
Includes(list, key) ==
  \E i \in 1..Len(OwnEntries(list)) : list.e[i].val = Str(key)
\* Calling an array method (forEach, includes, map) on what is no array.
NotAnArray(v) == v.k # "array"

StackOverflow == Throw("RangeError: Maximum call stack size exceeded")
\* new Date().toISOString() at clock reading `now`.
ISOString(now) == "2026-01-01T00:00:00.00" \o ToString(now) \o "Z"

(***************************************************************************)
(* generateExample (the Example Synthesizer).  `stack` is the number of    *)
(* frames the call stack still has room for.  Where the code binds the     *)
(* result of a call to a local and goes on, the model hands it to the      *)
(* operator that goes on (the ...Next operators).                          *)
(***************************************************************************)
RECURSIVE GenerateExample(_, _, _, _, _)
RECURSIVE GenAllOf(_, _, _, _, _, _)
RECURSIVE GenAllOfNext(_, _, _, _, _, _, _)
RECURSIVE GenProps(_, _, _, _, _, _, _)
RECURSIVE GenPropsNext(_, _, _, _, _, _, _, _, _)

\* The primitives: lines 217-231.
GenPrimitive(schema, now) ==
  IF Truthy(Prop(schema, "enum")) THEN Prop(Prop(schema, "enum"), "0")
  ELSE CASE Prop(schema, "type") = Str("string") ->
              IF Prop(schema, "format") = Str("date-time") THEN Str(ISOString(now))
              ELSE IF Prop(schema, "format") = Str("uri")
              THEN Str("https://example.com")
              ELSE Str("string")
         [] Prop(schema, "type") \in {Str("integer"), Str("number")} -> Num(0)
         [] Prop(schema, "type") = Str("boolean") -> Bool(TRUE)
         [] OTHER -> Null

\* A merge in which the keys already merged are kept: { ...ex, ...merged }.
MergeKeepingEarlier(merged, ex) ==
  IF IsObjectLike(ex) THEN PutAll(ex.e, merged) ELSE merged
\* Line 185: if (typeof ex === 'object' && ex !== null)
\*             merged = { ...merged, ...ex }
MergeExample(merged, ex) ==
  IF IsObjectLike(ex) THEN PutAll(merged, ex.e) ELSE merged

\* Lines 183-187: schema.allOf.forEach(sub => ...), then return merged.
GenAllOf(subs, merged, root, onlyRequired, now, stack) ==
  IF subs = <<>> THEN Obj(merged)
  ELSE GenAllOfNext(GenerateExample(subs[1].val, root, onlyRequired, now, stack - 1),
                    Tail(subs), merged, root, onlyRequired, now, stack)
GenAllOfNext(ex, subs, merged, root, onlyRequired, now, stack) ==
  IF IsThrow(ex) THEN ex
  ELSE GenAllOf(subs, MergeExample(merged, ex), root, onlyRequired, now, stack)

\* A filter that skips no property.
SkipsNothing(onlyRequired, required, key) == FALSE
\* A filter that forgets the flag: if (!required.includes(key)) return;
SkipsOptional(onlyRequired, required, key) == ~Includes(required, key)
\* Line 207: if (onlyRequired && !required.includes(key)) return;
SkipsProperty(onlyRequired, required, key) ==
  onlyRequired /\ ~Includes(required, key)

\* Lines 206-210: Object.entries(props).forEach(([key, val]) => ...), then
\* return obj.
GenProps(props, obj, required, root, onlyRequired, now, stack) ==
  IF props = <<>> THEN Obj(obj)
  ELSE IF onlyRequired /\ NotAnArray(required)
  THEN Throw("TypeError: required.includes is not a function")
  ELSE IF SkipsProperty(onlyRequired, required, props[1].key)
  THEN GenProps(Tail(props), obj, required, root, onlyRequired, now, stack)
  ELSE GenPropsNext(GenerateExample(props[1].val, root, onlyRequired, now, stack - 1),
                    props[1].key, Tail(props), obj, required, root, onlyRequired,
                    now, stack)
GenPropsNext(ex, key, props, obj, required, root, onlyRequired, now, stack) ==
  IF IsThrow(ex) THEN ex
  ELSE GenProps(props, Put(obj, key, ex), required, root, onlyRequired, now, stack)

\* Line 177: return target ? generateExample(target, ...) : undefined
GenTarget(target, root, onlyRequired, now, stack) ==
  IF IsThrow(target) THEN target
  ELSE IF Truthy(target)
  THEN GenerateExample(target, root, onlyRequired, now, stack - 1)
  ELSE Undef

\* The last alternative in place of the first.
LastAlternative(schema) ==
  Prop(Or(Prop(schema, "anyOf"), Prop(schema, "oneOf")),
       ToString(Len(OwnEntries(Or(Prop(schema, "anyOf"), Prop(schema, "oneOf")))) - 1))
\* Line 192: (schema.anyOf || schema.oneOf)[0]
FirstAlternative(schema) ==
  Prop(Or(Prop(schema, "anyOf"), Prop(schema, "oneOf")), "0")

\* Line 214: return [generateExample(schema.items, ...)]
GenArray(ex) == IF IsThrow(ex) THEN ex ELSE ArrayOf(<<ex>>)

\* Lines 196-197: an explicit example, else a default, is returned as it is.
HasGivenExample(schema) ==
  Prop(schema, "example") # Undef \/ Prop(schema, "default") # Undef
GivenExample(schema) ==
  IF Prop(schema, "example") # Undef
  THEN Prop(schema, "example") ELSE Prop(schema, "default")

\* Line 201: type === 'object' || schema.properties
IsObjectSchema(schema) ==
  Prop(schema, "type") = Str("object") \/ Truthy(Prop(schema, "properties"))

GenerateExample(schema, root, onlyRequired, now, stack) ==
  IF stack = 0 THEN StackOverflow
  ELSE IF ~Truthy(schema) THEN Undef
  ELSE IF Truthy(Prop(schema, "$ref"))
  THEN GenTarget(ResolveRef(Prop(schema, "$ref"), root), root, onlyRequired, now, stack)
  ELSE IF Truthy(Prop(schema, "allOf")) THEN
    IF NotAnArray(Prop(schema, "allOf"))
    THEN Throw("TypeError: schema.allOf.forEach is not a function")
    ELSE GenAllOf(Prop(schema, "allOf").e, <<>>, root, onlyRequired, now, stack)
  ELSE IF Truthy(Prop(schema, "anyOf")) \/ Truthy(Prop(schema, "oneOf"))
  THEN GenerateExample(FirstAlternative(schema), root, onlyRequired, now, stack - 1)
  ELSE IF HasGivenExample(schema) THEN GivenExample(schema)
  ELSE IF IsObjectSchema(schema)
  THEN GenProps(OwnEntries(Or(Prop(schema, "properties"), Obj(<<>>))), <<>>,
                Or(Prop(schema, "required"), Arr(<<>>)),
                root, onlyRequired, now, stack)
  ELSE IF Prop(schema, "type") = Str("array")
  THEN GenArray(GenerateExample(Prop(schema, "items"), root, onlyRequired, now,
                                stack - 1))
  ELSE GenPrimitive(schema, now)

(***************************************************************************)
(* Text: template literals, JSON.stringify, '  '.repeat.                   *)
(***************************************************************************)
RECURSIVE ToStr(_), JoinToStr(_, _)
\* String(v), as `${v}` converts: an array joins its elements with ',',
\* null and undefined elements as the empty text.
ToStr(v) ==
  CASE v.k = "string" -> v.s
    [] v.k = "number" -> ToString(v.n)
    [] v.k = "boolean" -> IF v.n = 1 THEN "true" ELSE "false"
    [] v.k = "array" -> JoinToStr(v.e, ",")
    [] v.k = "object" -> "[object Object]"
    [] OTHER -> v.k
JoinToStr(entries, sep) ==
  IF entries = <<>> THEN ""
  ELSE LET head == IF entries[1].val.k \in {"undefined", "null"} THEN ""
                   ELSE ToStr(entries[1].val)
       IN  IF Len(entries) = 1 THEN head
           ELSE head \o sep \o JoinToStr(Tail(entries), sep)

RECURSIVE Repeat(_, _)
\* unit.repeat(count)
Repeat(unit, count) == IF count = 0 THEN "" ELSE unit \o Repeat(unit, count - 1)

RECURSIVE Join(_, _)
\* texts.join(sep), halving the list so that the recursion stays shallow.
Join(texts, sep) ==
  IF texts = <<>> THEN ""
  ELSE IF Len(texts) = 1 THEN texts[1]
  ELSE LET half == Len(texts) \div 2
       IN  Join(SubSeq(texts, 1, half), sep) \o sep
             \o Join(SubSeq(texts, half + 1, Len(texts)), sep)

RECURSIVE Stringify(_, _, _), StringifyMembers(_, _, _, _)
\* JSON.stringify(v, null, gap) with the current indentation `indent`
\* (gap = "" is JSON.stringify(v)).  A member whose value is undefined is
\* left out of an object and is null in an array.  Quotes and backslashes
\* inside strings are not escaped: the model's strings hold none.
Stringify(v, gap, indent) ==
  CASE v.k = "string" -> "\"" \o v.s \o "\""
    [] v.k = "number" -> ToString(v.n)
    [] v.k = "boolean" -> IF v.n = 1 THEN "true" ELSE "false"
    [] v.k = "null" -> "null"
    [] v.k \in {"object", "array"} ->
         LET open == IF v.k = "object" THEN "{" ELSE "["
             close == IF v.k = "object" THEN "}" ELSE "]"
             inner == indent \o gap
             members == StringifyMembers(v.e, v.k = "object", gap, inner)
         IN  IF members = <<>> THEN open \o close
             ELSE IF gap = "" THEN open \o Join(members, ",") \o close
             ELSE open \o "\n" \o inner \o Join(members, ",\n" \o inner)
                    \o "\n" \o indent \o close
    [] OTHER -> "undefined"
StringifyMembers(entries, named, gap, indent) ==
  IF entries = <<>> THEN <<>>
  ELSE LET val == entries[1].val
           rest == StringifyMembers(Tail(entries), named, gap, indent)
           colon == IF gap = "" THEN ":" ELSE ": "
       IN  IF named
           THEN IF val.k = "undefined" THEN rest
                ELSE <<"\"" \o entries[1].key \o "\"" \o colon
                         \o Stringify(val, gap, indent)>> \o rest
           ELSE <<IF val.k = "undefined" THEN "null"
                  ELSE Stringify(val, gap, indent)>> \o rest

\* JSON.stringify(v, null, 2)
Pretty(v) == Stringify(v, "  ", "")
\* JSON.stringify(v, null, 2).split('\n').map(l => '  ' + l).join('\n'):
\* every line two spaces further in (a string's own line breaks are escaped
\* by JSON.stringify, so only the layout's line breaks are split at).
PrettyIndented(v) == "  " \o Stringify(v, "  ", "  ")

\* The grave accent of Markdown's code spans and fences: the strings of
\* this notation cannot hold that character, and "~" stands for it.
BT == "~"
Code(text) == BT \o text \o BT
Fence(lang) == BT \o BT \o BT \o lang

\* enums.map(e => '`' + JSON.stringify(e) + '`').join(', ')
EnumList(enums) ==
  Join([i \in 1..Len(enums.e) |-> Code(Stringify(enums.e[i].val, "", ""))], ", ")

\* One output line: its text, and the line of the source that pushed it.
Line(at, text) == [at |-> at, text |-> text]

(***************************************************************************)
(* parseSchema (the Schema Describer).  Its result is the list of lines    *)
(* after the call and, when it threw, the message of the exception.        *)
(***************************************************************************)
Done(lines) == [lines |-> lines, thrown |-> ""]
Thrown(lines, msg) == [lines |-> lines, thrown |-> msg]
Threw(r) == r.thrown # ""

\* The part of the metadata that properties, primitives and parameters
\* share: format, min, max, default, enum (lines 279-283, 312-316, 57-61).
CommonMetadata(format, min, max, def, enums) ==
  (IF Truthy(format) THEN ", format: " \o Code(ToStr(format)) ELSE "")
    \o (IF min # Undef THEN ", min: " \o Code(ToStr(min)) ELSE "")
    \o (IF max # Undef THEN ", max: " \o Code(ToStr(max)) ELSE "")
    \o (IF def # Undef THEN ", default: " \o Code(Stringify(def, "", "")) ELSE "")
    \o (IF Truthy(enums) /\ enums.k = "array"
        THEN ", enum: [" \o EnumList(enums) \o "]" ELSE "")

\* schema.description ? ': ' + schema.description : ''
DescriptionSuffix(schema) ==
  IF Truthy(Prop(schema, "description"))
  THEN ": " \o ToStr(Prop(schema, "description")) ELSE ""

\* The line of one property of an object schema: lines 267-287.
PropertyLine(key, val, requiredFields, depth) ==
  Line(287,
       Repeat("  ", depth) \o "- " \o Code(key) \o " ["
         \o (IF Includes(requiredFields, key) THEN "**Required**" ELSE "Optional")
         \o "] ("
         \o Code(ToStr(Or(Prop(val, "type"),
                          IF Truthy(Prop(val, "$ref"))
                          THEN Str("object") ELSE Str("unknown"))))
         \o CommonMetadata(Prop(val, "format"), Prop(val, "minimum"),
                           Prop(val, "maximum"), Prop(val, "default"),
                           Prop(val, "enum"))
         \o (IF Prop(val, "example") # Undef
             THEN ", example: " \o Code(Stringify(Prop(val, "example"), "", ""))
             ELSE "")
         \o ")" \o DescriptionSuffix(val))

\* The line of an array schema: lines 298-301.
ArrayLine(schema, depth) ==
  Line(301,
       Repeat("  ", depth) \o "- " \o Code("Array") \o " (array"
         \o (IF Prop(schema, "default") # Undef
             THEN ", default: " \o Code(Stringify(Prop(schema, "default"), "", ""))
             ELSE "")
         \o ")" \o DescriptionSuffix(schema))

\* The line of a primitive schema: lines 305-317.
PrimitiveLine(schema, depth) ==
  Line(317,
       Repeat("  ", depth) \o "- (" \o Code(ToStr(Prop(schema, "type")))
         \o CommonMetadata(Prop(schema, "format"), Prop(schema, "minimum"),
                           Prop(schema, "maximum"), Prop(schema, "default"),
                           Prop(schema, "enum"))
         \o ")" \o DescriptionSuffix(schema))

\* The placeholder line of a reference that does not resolve: line 249.
RefLine(schema, depth) ==
  Line(249, Repeat("  ", depth) \o "- " \o Code("Ref: " \o ToStr(Prop(schema, "$ref"))))

\* The line that labels a composition: lines 255-256.
CompositionLine(schema, depth) ==
  Line(256,
       Repeat("  ", depth) \o "- *"
         \o (IF Truthy(Prop(schema, "allOf")) THEN "All of:"
             ELSE IF Truthy(Prop(schema, "anyOf")) THEN "Any of:"
             ELSE "One of:")
         \o "*")

\* Line 254: schema.allOf || schema.anyOf || schema.oneOf
SubSchemas(schema) ==
  Or(Prop(schema, "allOf"), Or(Prop(schema, "anyOf"), Prop(schema, "oneOf")))

\* Line 289: val.type === 'object' || val.properties || val.$ref
DescribesProperty(val) ==
  \/ Prop(val, "type") = Str("object")
  \/ Truthy(Prop(val, "properties"))
  \/ Truthy(Prop(val, "$ref"))
\* Line 291: val.type === 'array' && val.items
DescribesItems(val) ==
  Prop(val, "type") = Str("array") /\ Truthy(Prop(val, "items"))

RECURSIVE ParseSchema(_, _, _, _, _)
RECURSIVE ParseSubSchemas(_, _, _, _, _)
RECURSIVE ParseSubSchemasNext(_, _, _, _, _)
RECURSIVE ParseProps(_, _, _, _, _, _)
RECURSIVE ParsePropsNext(_, _, _, _, _, _)

\* Line 258: subSchemas.forEach(sub => parseSchema(sub, root, lines, depth + 1))
ParseSubSchemas(subs, root, lines, depth, stack) ==
  IF subs = <<>> THEN Done(lines)
  ELSE ParseSubSchemasNext(ParseSchema(subs[1].val, root, lines, depth + 1, stack - 1),
                           Tail(subs), root, depth, stack)
ParseSubSchemasNext(r, subs, root, depth, stack) ==
  IF Threw(r) THEN r ELSE ParseSubSchemas(subs, root, r.lines, depth, stack)

\* Lines 289-294: what follows the line of a property.
ParseProperty(val, root, pushed, depth, stack) ==
  IF DescribesProperty(val)
  THEN ParseSchema(val, root, pushed, depth + 1, stack - 1)
  ELSE IF DescribesItems(val)
  THEN ParseSchema(Prop(val, "items"), root,
                   Append(pushed, Line(292, Repeat("  ", depth + 1) \o "*Items:*")),
                   depth + 2, stack - 1)
  ELSE Done(pushed)

\* Lines 266-295: Object.entries(props).forEach(([key, val]) => ...).
\* requiredFields.includes throws on what is no array, val.type on null.
ParseProps(props, requiredFields, root, lines, depth, stack) ==
  IF props = <<>> THEN Done(lines)
  ELSE IF NotAnArray(requiredFields)
  THEN Thrown(lines, "TypeError: requiredFields.includes is not a function")
  ELSE IF Nullish(props[1].val)
  THEN Thrown(lines, ReadError(props[1].val))
  ELSE ParsePropsNext(
         ParseProperty(props[1].val, root,
                       Append(lines, PropertyLine(props[1].key, props[1].val,
                                                  requiredFields, depth)),
                       depth, stack),
         Tail(props), requiredFields, root, depth, stack)
ParsePropsNext(r, props, requiredFields, root, depth, stack) ==
  IF Threw(r) THEN r
  ELSE ParseProps(props, requiredFields, root, r.lines, depth, stack)

\* The placeholder takes the place of the lines instead of being pushed.
ParseTargetReplacing(target, schema, root, lines, depth, stack) ==
  IF IsThrow(target) THEN Thrown(lines, target.s)
  ELSE IF Truthy(target) THEN ParseSchema(target, root, lines, depth, stack - 1)
  ELSE Done(<<RefLine(schema, depth)>>)
\* Lines 246-250: describe the target, or push the placeholder.
ParseTarget(target, schema, root, lines, depth, stack) ==
  IF IsThrow(target) THEN Thrown(lines, target.s)
  ELSE IF Truthy(target) THEN ParseSchema(target, root, lines, depth, stack - 1)
  ELSE Done(Append(lines, RefLine(schema, depth)))

\* Lines 254-259: the label, then every sub-schema one level deeper.
ParseComposition(schema, root, pushed, depth, stack) ==
  IF NotAnArray(SubSchemas(schema))
  THEN Thrown(pushed, "TypeError: subSchemas.forEach is not a function")
  ELSE ParseSubSchemas(SubSchemas(schema).e, root, pushed, depth, stack)

ParseSchema(schema, root, lines, depth, stack) ==
  IF stack = 0 THEN Thrown(lines, StackOverflow.s)
  ELSE IF ~Truthy(schema) THEN Done(lines)
  ELSE IF Truthy(Prop(schema, "$ref"))
  THEN ParseTarget(ResolveRef(Prop(schema, "$ref"), root), schema, root, lines,
                   depth, stack)
  ELSE IF Truthy(SubSchemas(schema))
  THEN ParseComposition(schema, root, Append(lines, CompositionLine(schema, depth)),
                        depth, stack)
  ELSE IF IsObjectSchema(schema)
  THEN ParseProps(OwnEntries(Or(Prop(schema, "properties"), Obj(<<>>))),
                  Or(Prop(schema, "required"), Arr(<<>>)),
                  root, lines, depth, stack)
  ELSE IF DescribesItems(schema)
  THEN ParseSchema(Prop(schema, "items"), root,
                   Append(lines, ArrayLine(schema, depth)), depth + 1, stack - 1)
  ELSE IF Truthy(Prop(schema, "type"))
  THEN Done(Append(lines, PrimitiveLine(schema, depth)))
  ELSE Done(lines)

(***************************************************************************)
(* localConvertToLlmTxt (the Document Assembler), in the pieces its code   *)
(* runs in order.  Each piece takes the lines so far and gives the lines   *)
(* after it, or the exception it threw.                                    *)
(***************************************************************************)
\* method.toLowerCase() and method.toUpperCase() on the keys the model's
\* documents hold under a path.
CaseTable ==
  ("get" :> <<"get", "GET">>) @@ ("GET" :> <<"get", "GET">>)
    @@ ("post" :> <<"post", "POST">>) @@ ("Post" :> <<"post", "POST">>)
    @@ ("put" :> <<"put", "PUT">>) @@ ("delete" :> <<"delete", "DELETE">>)
    @@ ("patch" :> <<"patch", "PATCH">>) @@ ("options" :> <<"options", "OPTIONS">>)
    @@ ("head" :> <<"head", "HEAD">>) @@ ("trace" :> <<"trace", "TRACE">>)
    @@ ("parameters" :> <<"parameters", "PARAMETERS">>)
    @@ ("x-internal" :> <<"x-internal", "X-INTERNAL">>)
ToLowerCase(key) == CaseTable[key][1]
ToUpperCase(key) == CaseTable[key][2]
\* The list of line 32.
HttpMethods == {"get", "post", "put", "delete", "patch", "options", "head"}
\* The test without the lower-casing: [...].includes(method)
IsHttpMethodAsWritten(method) == method \in HttpMethods
\* Lines 31-32: [...].includes(method.toLowerCase())
IsHttpMethod(method) == ToLowerCase(method) \in HttpMethods

\* Lines 18-24.  spec.info.title throws when spec or spec.info is null or
\* undefined.
HeaderLines(spec) ==
  IF Nullish(spec) THEN Thrown(<<>>, ReadError(spec))
  ELSE IF Nullish(Prop(spec, "info")) THEN Thrown(<<>>, ReadError(Prop(spec, "info")))
  ELSE Done(<<Line(18, "# " \o ToStr(Or(Prop(Prop(spec, "info"), "title"),
                                        Str("API Documentation")))),
              Line(19, ToStr(Or(Prop(Prop(spec, "info"), "description"),
                                Str("No description provided.")))),
              Line(20, ""),
              Line(23, "## Endpoints"),
              Line(24, "")>>)

\* Line 27: (spec as any).servers?.[0]?.url || 'https://api.example.com'
BaseUrl(spec) ==
  Or(OptGet(OptGet(OptGet(spec, "servers"), "0"), "url"),
     Str("https://api.example.com"))

\* content['application/json']?.schema || content['*/*']?.schema
\*   || (Object.values(content)[0] as any)?.schema      (lines 73 and 117)
FirstValue(content) ==
  IF OwnEntries(content) = <<>> THEN Undef ELSE OwnEntries(content)[1].val
ContentSchema(content) ==
  Or(OptGet(Prop(content, "application/json"), "schema"),
     Or(OptGet(Prop(content, "*/*"), "schema"),
        OptGet(FirstValue(content), "schema")))

\* Lines 34-38: the heading of an operation block.  op.summary throws when
\* the value under the method key is null.
HeadingLines(path, method, op, lines) ==
  IF Nullish(op) THEN Thrown(lines, ReadError(op))
  ELSE Done(lines
              \o <<Line(36, "### " \o ToUpperCase(method) \o " " \o path \o " - "
                              \o ToStr(Or(Prop(op, "summary"),
                                          Or(Prop(op, "operationId"),
                                             Str("No summary")))))>>
              \o (IF Truthy(Prop(op, "description"))
                  THEN <<Line(37, ToStr(Prop(op, "description")))>> ELSE <<>>)
              \o <<Line(38, "")>>)

\* Line 48: pAny.schema || {}
ParamSchema(p) == Or(Prop(p, "schema"), Obj(<<>>))
\* Lines 49, 51, 52: schema.x || pAny.x
ParamEither(p, key) == Or(Prop(ParamSchema(p), key), Prop(p, key))
\* Lines 50, 53, 54: schema.x !== undefined ? schema.x : pAny.x
ParamDefined(p, key) ==
  IF Prop(ParamSchema(p), key) # Undef THEN Prop(ParamSchema(p), key) ELSE Prop(p, key)

\* Lines 47-64: the line of one parameter.
ParameterLine(p) ==
  Line(64,
       "- " \o Code(ToStr(Prop(p, "name"))) \o " ["
         \o (IF Truthy(Prop(p, "required")) THEN "**Required**" ELSE "Optional")
         \o "] (" \o ToStr(Prop(p, "in")) \o ", "
         \o Code(ToStr(Or(ParamEither(p, "type"), Str("unknown"))))
         \o CommonMetadata(ParamEither(p, "format"), ParamDefined(p, "minimum"),
                           ParamDefined(p, "maximum"), ParamDefined(p, "default"),
                           ParamEither(p, "enum"))
         \o "): " \o ToStr(Or(Prop(p, "description"), Str("No description"))))

RECURSIVE ParameterLines(_, _)
\* Line 46: parameters.forEach((p) => ...): p.schema throws when p is null.
ParameterLines(params, lines) ==
  IF params = <<>> THEN Done(lines)
  ELSE IF Nullish(params[1].val) THEN Thrown(lines, ReadError(params[1].val))
  ELSE ParameterLines(Tail(params), Append(lines, ParameterLine(params[1].val)))

\* Line 43: op.parameters || [], and its length (undefined on what is no
\* array).
Parameters(op) == Or(Prop(op, "parameters"), Arr(<<>>))
HasParameters(op) == Parameters(op).k = "array" /\ Len(Parameters(op).e) > 0
NoParameters(op) == Parameters(op).k = "array" /\ Len(Parameters(op).e) = 0

\* Line 72: requestBody.content || {}
BodyContent(op) == Or(Prop(Prop(op, "requestBody"), "content"), Obj(<<>>))
\* Lines 68-73: the request body's schema, null without a request body.
BodySchema(op) ==
  IF Truthy(Prop(op, "requestBody")) THEN ContentSchema(BodyContent(op)) ELSE Null
\* Line 77: Object.keys(content).join(', ')
ContentTypes(content) ==
  Join([i \in 1..Len(OwnEntries(content)) |-> content.e[i].key], ", ")

\* Lines 44-66: the parameters.
ParametersSection(op, lines) ==
  IF HasParameters(op)
  THEN ParameterLines(Parameters(op).e, Append(lines, Line(45, "**Parameters:**")))
  ELSE Done(lines)

\* Lines 68-80: the request body.
RequestBodyLines(op, spec, lines, stack) ==
  IF ~Truthy(Prop(op, "requestBody")) THEN Done(lines)
  ELSE IF Truthy(BodySchema(op))
  THEN ParseSchema(BodySchema(op), spec, Append(lines, Line(71, "**Request Body:**")),
                   0, stack)
  ELSE Done(lines
              \o <<Line(71, "**Request Body:**"),
                   Line(78, "- *Content types: "
                              \o (IF ContentTypes(BodyContent(op)) # ""
                                  THEN ContentTypes(BodyContent(op)) ELSE "Unknown")
                              \o " (No schema defined)*")>>)

\* Lines 82-85: the end of the Input section.
InputEnd(r, op) ==
  IF Threw(r) THEN r
  ELSE Done(r.lines
              \o (IF NoParameters(op) /\ ~Truthy(Prop(op, "requestBody"))
                  THEN <<Line(83, "- No input parameters required.")>> ELSE <<>>)
              \o <<Line(85, "")>>)
InputBody(r, op, spec, stack) ==
  IF Threw(r) THEN r ELSE InputEnd(RequestBodyLines(op, spec, r.lines, stack), op)
\* Lines 41-85: the Input section.
InputLines(op, spec, lines, stack) ==
  InputBody(ParametersSection(op, Append(lines, Line(41, "#### Input"))),
            op, spec, stack)

\* Object.keys(v).length > 0 where v is not null or undefined: a string has
\* one key per character, a number or a boolean has none.
HasOwnKeys(v) ==
  CASE IsObjectLike(v) -> Len(v.e) > 0
    [] v.k = "string" -> v.s # ""
    [] OTHER -> FALSE

\* Lines 92-104: the two example blocks; Object.keys(requiredEx) throws on
\* null and undefined.
ExampleBlocks(requiredEx, fullEx, lines) ==
  IF IsThrow(requiredEx) THEN Thrown(lines, requiredEx.s)
  ELSE IF IsThrow(fullEx) THEN Thrown(lines, fullEx.s)
  ELSE IF ~CanEnumerate(requiredEx) THEN Thrown(lines, EnumerateError)
  ELSE Done(lines
              \o (IF HasOwnKeys(requiredEx)
                  THEN <<Line(93, "**Required Parameters Example**:"),
                         Line(94, Fence("json")),
                         Line(95, Pretty(requiredEx)),
                         Line(96, Fence("")),
                         Line(97, "")>>
                  ELSE <<>>)
              \o <<Line(100, "**Full Example**:"),
                   Line(101, Fence("json")),
                   Line(102, Pretty(fullEx)),
                   Line(103, Fence("")),
                   Line(104, "")>>)

\* Lines 88-105: the examples of the request body.
InputExampleLines(op, spec, lines, now, stack) ==
  IF ~Truthy(BodySchema(op)) THEN Done(lines)
  ELSE ExampleBlocks(GenerateExample(BodySchema(op), spec, TRUE, now, stack),
                     GenerateExample(BodySchema(op), spec, FALSE, now, stack),
                     lines)

\* Line 123, left of the last ||: content['application/json']?.example
\*   || content['application/json']?.examples?.[0]?.value
ContentExample(content) ==
  Or(OptGet(Prop(content, "application/json"), "example"),
     OptGet(OptGet(OptGet(Prop(content, "application/json"), "examples"), "0"),
            "value"))
\* Line 123: the value of the "Example Response" block.
ResponseExample(content, jsonSchema, spec, now, stack) ==
  IF Truthy(ContentExample(content)) THEN ContentExample(content)
  ELSE GenerateExample(jsonSchema, spec, FALSE, now, stack)

\* Line 124: respEx && Object.keys(respEx).length > 0
ShowsExample(respEx) == Truthy(respEx) /\ HasOwnKeys(respEx)

\* Lines 124-129: the "Example Response" block.
ExampleResponseBlock(respEx, lines) ==
  IF IsThrow(respEx) THEN Thrown(lines, respEx.s)
  ELSE IF ShowsExample(respEx)
  THEN Done(lines \o <<Line(125, "  **Example Response**:"),
                       Line(126, "  " \o Fence("json")),
                       Line(127, PrettyIndented(respEx)),
                       Line(128, "  " \o Fence(""))>>)
  ELSE Done(lines)

\* Line 116: response.content || {}
ResponseContent(response) == Or(Prop(response, "content"), Obj(<<>>))

\* Lines 120-129: the schema of a response, then its example.
SchemaResponse(r, response, spec, now, stack) ==
  IF Threw(r) THEN r
  ELSE ExampleResponseBlock(
         ResponseExample(ResponseContent(response),
                         ContentSchema(ResponseContent(response)), spec, now, stack),
         r.lines)

\* Lines 119-134: the three kinds of response.
ResponseBody(response, spec, lines, now, stack) ==
  IF Truthy(ContentSchema(ResponseContent(response)))
  THEN SchemaResponse(
         ParseSchema(ContentSchema(ResponseContent(response)), spec, lines, 1, stack),
         response, spec, now, stack)
  ELSE IF Truthy(Prop(response, "$ref"))
  THEN ParseSchema(response, spec, lines, 1, stack)
  ELSE Done(Append(lines, Line(133, "  - No response body schema defined.")))

\* Line 135.
ResponseEnd(r) == IF Threw(r) THEN r ELSE Done(Append(r.lines, Line(135, "")))

\* Lines 113-135: one response; response.description throws on null.
ResponseLines(code, response, spec, lines, now, stack) ==
  IF Nullish(response) THEN Thrown(lines, ReadError(response))
  ELSE ResponseEnd(
         ResponseBody(response, spec,
                      Append(lines,
                             Line(114, "**Response " \o code \o ": "
                                         \o ToStr(Or(Prop(response, "description"),
                                                     Str("No description")))
                                         \o "**")),
                      now, stack))

RECURSIVE ResponsesLines(_, _, _, _, _)
RECURSIVE ResponsesNext(_, _, _, _, _)
\* Line 112: Object.entries(responses).forEach(([code, response]) => ...)
ResponsesLines(responses, spec, lines, now, stack) ==
  IF responses = <<>> THEN Done(lines)
  ELSE ResponsesNext(ResponseLines(responses[1].key, responses[1].val, spec, lines,
                                   now, stack),
                     Tail(responses), spec, now, stack)
ResponsesNext(r, responses, spec, now, stack) ==
  IF Threw(r) THEN r ELSE ResponsesLines(responses, spec, r.lines, now, stack)

\* Line 109: op.responses || {}
Responses(op) == Or(Prop(op, "responses"), Obj(<<>>))

\* Lines 108-139: the Output section.
OutputLines(op, spec, lines, now, stack) ==
  IF HasOwnKeys(Responses(op))
  THEN ResponsesLines(OwnEntries(Responses(op)), spec,
                      Append(lines, Line(108, "#### Output")), now, stack)
  ELSE Done(lines \o <<Line(108, "#### Output"),
                       Line(138, "- No response documentation provided.")>>)

\* Line 146: the command without its data.
CurlCmd(path, method, spec) ==
  "curl --request " \o ToUpperCase(method) \o " \\\n  --url "
    \o ToStr(BaseUrl(spec)) \o path
    \o " \\\n  --header \"Content-Type: application/json\""
\* Line 149: the data of the command.
CurlData(reqEx) == " \\\n  --data '" \o Pretty(reqEx) \o "'"

\* Lines 142-145.
UsageStart(lines) ==
  lines \o <<Line(142, "#### Usage Examples"),
             Line(143, ""),
             Line(144, "##### cURL"),
             Line(145, Fence("bash"))>>
\* Lines 151-156.
UsageEnd(lines, curlCmd) ==
  Done(lines \o <<Line(151, curlCmd),
                  Line(152, Fence("")),
                  Line(153, ""),
                  Line(155, "---"),
                  Line(156, "")>>)
\* Lines 148-156.
UsageWith(reqEx, path, method, spec, lines) ==
  IF IsThrow(reqEx) THEN Thrown(lines, reqEx.s)
  ELSE UsageEnd(lines, CurlCmd(path, method, spec) \o CurlData(reqEx))

\* Lines 142-156: the Usage Examples section and the closing rule.
UsageLines(path, method, op, spec, lines, now, stack) ==
  IF Truthy(BodySchema(op))
  THEN UsageWith(GenerateExample(BodySchema(op), spec, TRUE, now, stack),
                 path, method, spec, UsageStart(lines))
  ELSE UsageEnd(UsageStart(lines), CurlCmd(path, method, spec))

\* An operation block goes on with its next section unless the last threw.
AfterOutput(r, path, method, op, spec, now, stack) ==
  IF Threw(r) THEN r ELSE UsageLines(path, method, op, spec, r.lines, now, stack)
AfterExamples(r, path, method, op, spec, now, stack) ==
  IF Threw(r) THEN r
  ELSE AfterOutput(OutputLines(op, spec, r.lines, now, stack),
                   path, method, op, spec, now, stack)
AfterInput(r, path, method, op, spec, now, stack) ==
  IF Threw(r) THEN r
  ELSE AfterExamples(InputExampleLines(op, spec, r.lines, now, stack),
                     path, method, op, spec, now, stack)
AfterHeading(r, path, method, op, spec, now, stack) ==
  IF Threw(r) THEN r
  ELSE AfterInput(InputLines(op, spec, r.lines, stack),
                  path, method, op, spec, now, stack)

\* Lines 33-156: the operation block of one HTTP method of one path.
OperationBlock(path, method, op, spec, lines, now, stack) ==
  AfterHeading(HeadingLines(path, method, op, lines),
               path, method, op, spec, now, stack)

\* The pairs the two nested forEach of lines 29-30 visit, in order: one
\* [path, method, op] per key of each path, and a last entry with
\* thrown = TRUE where Object.entries(methods) throws (methods is null).
RECURSIVE Visits(_)
Visits(paths) ==
  IF paths = <<>> THEN <<>>
  ELSE IF ~CanEnumerate(paths[1].val)
  THEN <<[path |-> paths[1].key, method |-> "", op |-> Undef, thrown |-> TRUE]>>
  ELSE [i \in 1..Len(OwnEntries(paths[1].val)) |->
          [path |-> paths[1].key,
           method |-> paths[1].val.e[i].key,
           op |-> paths[1].val.e[i].val,
           thrown |-> FALSE]]
         \o Visits(Tail(paths))

\* Line 26: spec.paths || {}, as the entries Object.entries gives.
Paths(spec) == OwnEntries(Or(Prop(spec, "paths"), Obj(<<>>)))

\* Line 161: lines.join('\n')
JoinLines(lines) == Join([i \in 1..Len(lines) |-> lines[i].text], "\n")

(***************************************************************************)
(* The input texts.  A document is written as a value whose objects hold   *)
(* their members in the order of the text; TextOf gives its lexemes.       *)
(***************************************************************************)
RECURSIVE TextOf(_), MembersText(_, _)
TextOf(v) ==
  CASE v.k = "string" -> <<TStr(v.s)>>
    [] v.k = "number" -> <<TNum(v.n)>>
    [] v.k = "boolean" -> <<Tok(IF v.n = 1 THEN "true" ELSE "false")>>
    [] v.k = "null" -> <<Tok("null")>>
    [] v.k = "object" -> <<Tok("{")>> \o MembersText(v.e, TRUE) \o <<Tok("}")>>
    [] v.k = "array" -> <<Tok("[")>> \o MembersText(v.e, FALSE) \o <<Tok("]")>>
MembersText(entries, named) ==
  IF entries = <<>> THEN <<>>
  ELSE (IF named THEN <<TStr(entries[1].key), Tok(":")>> ELSE <<>>)
         \o TextOf(entries[1].val)
         \o (IF Len(entries) > 1 THEN <<Tok(",")>> ELSE <<>>)
         \o MembersText(Tail(entries), named)

E(key, val) == Entry(key, val)
Strings(texts) == ArrayOf([i \in 1..Len(texts) |-> Str(texts[i])])
Typed(type) == Obj(<<E("type", Str(type))>>)
Ref(name) == Obj(<<E("$ref", Str(RefString(<<"components", "schemas", name>>)))>>)
\* An object schema; required = Undef leaves the `required` list out.
ObjectSchema(props, required) ==
  Obj(<<E("type", Str("object")), E("properties", Obj(props))>>
        \o (IF required = Undef THEN <<>> ELSE <<E("required", required)>>))
With(schema, key, val) == Obj(Append(schema.e, E(key, val)))

\* components.schemas: Pet is plain, Node and Loop reach themselves, Foo is
\* not declared.
PetSchema ==
  ObjectSchema(<<E("id", Typed("integer")), E("name", Typed("string"))>>,
               Strings(<<"id">>))
NodeSchema == ObjectSchema(<<E("next", Ref("Node"))>>, Strings(<<"next">>))
LoopSchema == Obj(<<E("allOf", ArrayOf(<<Ref("Loop")>>))>>)
Components ==
  Obj(<<E("schemas", Obj(<<E("Pet", PetSchema), E("Node", NodeSchema),
                           E("Loop", LoopSchema)>>))>>)

\* The generated object schemas: every list of up to MaxProps properties
\* with distinct names, declared in any order, with every `required` list.
PropNames == {"a", "b", "1"}
PropLeafs == {Typed("string"), Typed("integer")}
RequiredLists ==
  {Undef, Strings(<<"a">>), Strings(<<"b", "1">>), Strings(<<"a", "z">>)}
RECURSIVE PropLists(_)
PropLists(n) ==
  IF n = 0 THEN {<<>>}
  ELSE PropLists(n - 1)
         \cup {Append(l, E(name, leaf)) :
                 l \in {x \in PropLists(n - 1) : Len(x) = n - 1},
                 name \in PropNames, leaf \in PropLeafs}
DistinctNames(l) == \A i, j \in 1..Len(l) : l[i].key = l[j].key => i = j
GeneratedSchemas ==
  {ObjectSchema(props, required) :
     props \in {l \in PropLists(MaxProps) : DistinctNames(l)},
     required \in RequiredLists}

ObjA ==
  ObjectSchema(<<E("a", Typed("string")), E("b", Typed("integer"))>>, Strings(<<"a">>))
ObjB ==
  ObjectSchema(<<E("b", With(Typed("string"), "enum", Strings(<<"x", "y">>))),
                 E("c", Typed("boolean"))>>,
               Strings(<<"b">>))
StringArray == With(Typed("array"), "items", Typed("string"))
Composed(keyword, subs) == Obj(<<E(keyword, ArrayOf(subs))>>)

\* The schemas written by hand: the primitives, arrays, objects with an
\* example or a default, compositions, and references.
PrimitiveSchemas ==
  {Typed("string"), Typed("integer"), Typed("number"), Typed("boolean"),
   Typed("mystery"), Obj(<<>>),
   With(Typed("string"), "format", Str("date-time")),
   With(Typed("string"), "format", Str("uri")),
   With(Typed("string"), "enum", Strings(<<"x", "y">>)),
   With(With(With(Typed("integer"), "minimum", Num(1)), "maximum", Num(9)),
        "default", Num(5)),
   With(With(Typed("string"), "example", Str("ex")), "description", Str("a text"))}
ArraySchemas ==
  {StringArray, With(Typed("array"), "items", Ref("Pet")), Typed("array"),
   With(StringArray, "default", Strings(<<"d">>))}
ObjectSchemas ==
  {With(ObjA, "example", Obj(<<E("zzz", Num(1))>>)),
   With(ObjA, "default", Obj(<<>>)),
   Obj(<<E("properties", Obj(<<E("a", Typed("string"))>>)),
         E("required", Strings(<<"a">>))>>),
   Typed("object"),
   ObjectSchema(<<E("inner", ObjA), E("list", StringArray),
                  E("combo", Composed("anyOf", <<Typed("string"), ObjA>>)),
                  E("pet", Ref("Pet")), E("gone", Ref("Foo"))>>,
                Strings(<<"inner", "gone">>)),
   With(ObjA, "$ref", Str(RefString(<<"components", "schemas", "Pet">>))),
   With(ObjA, "allOf", ArrayOf(<<ObjB>>)),
   With(ObjA, "oneOf", ArrayOf(<<ObjB>>))}
ComposedSchemas ==
  {Composed("allOf", <<ObjA, ObjB>>), Composed("allOf", <<ObjB, ObjA>>),
   Composed("allOf", <<Ref("Pet"), ObjA>>), Composed("allOf", <<Typed("string"), ObjA>>),
   Composed("allOf", <<StringArray, ObjB>>), Composed("allOf", <<Ref("Foo"), ObjA>>),
   Composed("allOf", <<Obj(<<>>)>>),
   Composed("anyOf", <<Typed("string"), Typed("integer")>>),
   Composed("anyOf", <<ObjA, ObjB>>),
   Composed("oneOf", <<Ref("Pet"), Typed("string")>>),
   Composed("oneOf", <<ObjB, ObjA, Typed("string")>>),
   With(Composed("anyOf", <<ObjA>>), "oneOf", ArrayOf(<<ObjB>>))}
RefSchemas ==
  {Ref("Pet"), Ref("Foo"), Ref("Node"), Ref("Loop"),
   Obj(<<E("$ref", Str(RefString(<<"definitions", "Pet">>)))>>),
   ObjectSchema(<<E("self", Ref("Node"))>>, Undef),
   ObjectSchema(<<E("id", Typed("integer")), E("self", Ref("Node"))>>,
                Strings(<<"self">>))}
Schemas ==
  GeneratedSchemas \cup PrimitiveSchemas \cup ArraySchemas \cup ObjectSchemas
    \cup ComposedSchemas \cup RefSchemas

\* content: { 'application/json': { schema } }
JsonContent(schema) == Obj(<<E("application/json", Obj(<<E("schema", schema)>>))>>)
Info == Obj(<<E("title", Str("T"))>>)
OkResponse(more) == Obj(<<E("description", Str("ok"))>> \o more)
\* A document of one operation, POST /x.
DocOf(op) ==
  Obj(<<E("info", Info),
        E("paths", Obj(<<E("/x", Obj(<<E("post", op)>>))>>)),
        E("components", Components)>>)
\* The operation whose request body and whose response 200 hold a schema.
SchemaOperation(body, response) ==
  Obj(<<E("requestBody", Obj(<<E("content", JsonContent(body))>>)),
        E("responses", Obj(<<E("200", OkResponse(<<E("content", JsonContent(response))>>))>>))>>)
ResponseOperation(content) ==
  Obj(<<E("responses", Obj(<<E("200", OkResponse(<<E("content", content)>>))>>))>>)

\* One document per schema, as the request body and as the response.
SchemaDocuments == {DocOf(SchemaOperation(schema, schema)) : schema \in Schemas}

\* The responses that carry examples (line 123), and the content types of
\* lines 73 and 117.
ExampleValue == Obj(<<E("a", Str("given"))>>)
ExampleContentsOf(schema) ==
  {Obj(<<E("application/json", Obj(<<E("schema", schema), E("example", ExampleValue)>>))>>),
   Obj(<<E("application/json", Obj(<<E("schema", schema), E("example", Num(0))>>))>>),
   Obj(<<E("application/json",
           Obj(<<E("schema", schema),
                 E("examples", Obj(<<E("sample", Obj(<<E("value", ExampleValue)>>))>>))>>))>>),
   Obj(<<E("application/json",
           Obj(<<E("schema", schema),
                 E("examples", ArrayOf(<<Obj(<<E("value", ExampleValue)>>)>>))>>))>>),
   Obj(<<E("*/*", Obj(<<E("schema", schema), E("example", ExampleValue)>>))>>),
   Obj(<<E("text/plain", Obj(<<E("schema", schema)>>)),
         E("application/xml", Obj(<<E("schema", Typed("string"))>>))>>),
   Obj(<<E("text/plain", Obj(<<>>)),
         E("application/json", Obj(<<E("schema", schema)>>))>>)}
ExampleContents == UNION {ExampleContentsOf(schema) : schema \in {ObjA, Typed("integer")}}
ExampleDocuments == {DocOf(ResponseOperation(content)) : content \in ExampleContents}

\* The documents that vary the structure around the schemas.
ScenarioA ==
  Obj(<<E("info", Info),
        E("paths", Obj(<<E("/x", Obj(<<E("get",
              Obj(<<E("responses", Obj(<<E("200", OkResponse(<<>>))>>))>>))>>))>>))>>)
PlainOperation == Obj(<<E("summary", Str("Plain"))>>)
FullOperation ==
  Obj(<<E("operationId", Str("listPets")),
        E("description", Str("Lists the pets.")),
        E("parameters",
          ArrayOf(<<Obj(<<E("name", Str("limit")), E("in", Str("query")),
                          E("required", Bool(TRUE)),
                          E("schema", With(With(Typed("integer"), "minimum", Num(1)),
                                           "default", Num(5))),
                          E("description", Str("How many."))>>),
                    Obj(<<E("name", Str("kind")), E("in", Str("path")),
                          E("type", Str("string")),
                          E("enum", Strings(<<"x", "y">>))>>)>>)),
        E("requestBody",
          Obj(<<E("content", Obj(<<E("text/plain", Obj(<<>>)), E("text/csv", Obj(<<>>))>>))>>)),
        E("responses",
          Obj(<<E("404", Obj(<<E("$ref", Str(RefString(<<"components", "schemas", "Pet">>)))>>)),
                E("200", OkResponse(<<E("content", JsonContent(Ref("Pet")))>>)),
                E("default", Obj(<<>>))>>))>>)
ManyOperations ==
  Obj(<<E("info", Obj(<<E("title", Str("Many")), E("description", Str("Several."))>>)),
        E("servers", ArrayOf(<<Obj(<<E("url", Str("https://srv"))>>)>>)),
        E("paths",
          Obj(<<E("/b", Obj(<<E("parameters", Arr(<<>>)),
                              E("GET", PlainOperation),
                              E("x-internal", Str("note")),
                              E("Post", Obj(<<E("operationId", Str("addPet"))>>)),
                              E("get", PlainOperation)>>)),
                E("/a", Obj(<<E("trace", PlainOperation),
                              E("delete", PlainOperation),
                              E("head", Obj(<<>>))>>)),
                E("/c", Obj(<<E("put", PlainOperation), E("patch", PlainOperation),
                              E("options", PlainOperation)>>))>>)),
        E("components", Components)>>)
StructureDocuments ==
  {ScenarioA, ManyOperations, DocOf(FullOperation), DocOf(PlainOperation),
   Obj(<<E("paths", Obj(<<>>))>>),
   Obj(<<E("info", Obj(<<>>))>>),
   Obj(<<E("info", Null), E("paths", Obj(<<>>))>>),
   Obj(<<E("info", Info), E("paths", Obj(<<E("/x", Null)>>))>>),
   Obj(<<E("info", Info), E("paths", Obj(<<E("/x", Obj(<<E("get", Null)>>))>>))>>),
   Obj(<<E("info", Info), E("paths", Obj(<<E("/x", Obj(<<E("get", Obj(<<>>))>>))>>)),
         E("info", Obj(<<E("title", Str("Later"))>>))>>),
   Null, Num(5), Arr(<<>>), Obj(<<>>),
   DocOf(Obj(<<E("requestBody", Obj(<<>>))>>)),
   DocOf(Obj(<<E("parameters", ArrayOf(<<Null>>))>>)),
   DocOf(Obj(<<E("responses", Obj(<<E("200", Null)>>))>>))}

Documents == SchemaDocuments \cup ExampleDocuments \cup StructureDocuments

\* The texts that are not JSON: '{not json', the empty text, a text cut
\* short, a trailing comma, a missing colon, two values, a stray bracket.
Malformed ==
  {<<Tok("{"), TBad("not"), TBad("json")>>,
   <<>>,
   SubSeq(TextOf(ScenarioA), 1, Len(TextOf(ScenarioA)) - 1),
   <<Tok("{"), TStr("info"), Tok(":"), Tok("{"), Tok("}"), Tok(","), Tok("}")>>,
   <<Tok("{"), TStr("info"), Tok("{"), Tok("}"), Tok("}")>>,
   TextOf(ScenarioA) \o TextOf(ScenarioA),
   <<Tok("["), Tok("{"), Tok("]"), Tok("}")>>,
   <<Tok("{"), TNum(1), Tok(":"), TNum(2), Tok("}")>>}

Inputs == {TextOf(doc) : doc \in Documents} \cup Malformed

(***************************************************************************)
(* The state of one call of localConvertToLlmTxt, of one call of           *)
(* generateExample or of parseSchema taken alone, and of the component     *)
(* App of src/App.tsx.                                                     *)
(***************************************************************************)
VARIABLES
  jsonContent,   \* the argument: the input text, as its lexemes
  pc,            \* "start", "header", "paths", then "returned" or "failed";
                 \* "synthesize", then "synthesized", for generateExample alone;
                 \* "describe", then "described" or "failed", for parseSchema
                 \* alone; "app" for the component
  spec,          \* the local `spec`: the parsed document (the `root` of the
                 \* Describer and of the Synthesizer)
  todo,          \* the visits the two forEach of lines 29-30 still have to make
  lines,         \* the local `lines`
  result,        \* the returned Markdown text (undefined until the call returns)
  error,         \* the message of the exception the call threw ("" if none)
  now,           \* the reading of the wall clock
  schema,        \* the argument `schema` of generateExample, of parseSchema
  onlyRequired,  \* generateExample's argument `onlyRequired`
  example,       \* what generateExample returned or threw
  depth,         \* parseSchema's argument `depth`
  state,         \* the ConversionState of the component App
  uploads,       \* the uploads the component has started, in their order
  fileInput      \* the value of the file input (fileInputRef.current.value)

vars ==
  <<jsonContent, pc, spec, todo, lines, result, error, now, schema, onlyRequired,
    example, depth, state, uploads, fileInput>>
\* The arguments and the result of generateExample taken alone.
synthVars == <<schema, onlyRequired, example>>
\* The state of the component, which a call of the engine leaves alone.
appVars == <<state, uploads, fileInput>>

\* The catch that lets the exception of JSON.parse through.
CatchParseRethrow(parsed) == parsed
\* Lines 9-13: what JSON.parse threw is caught and replaced.
CatchParse(parsed) ==
  IF IsThrow(parsed) THEN Throw("Invalid JSON format") ELSE parsed

\* Lines 8-15 once JSON.parse is through.
Parsed(parsed) ==
  IF IsThrow(parsed)
  THEN /\ pc' = "failed"
       /\ error' = parsed.s
       /\ UNCHANGED spec
  ELSE /\ pc' = "header"
       /\ spec' = parsed
       /\ UNCHANGED error

\* Lines 8-15: JSON.parse, and the catch that rethrows.
ParseInput ==
  /\ pc = "start"
  /\ Parsed(CatchParse(JSONParse(jsonContent)))
  /\ UNCHANGED <<jsonContent, todo, lines, result, now>>
  /\ UNCHANGED synthVars
  /\ UNCHANGED <<depth, appVars>>

\* Lines 17-29 once the lines of the header are known.
Headed(r) ==
  IF Threw(r)
  THEN /\ pc' = "failed"
       /\ error' = r.thrown
       /\ UNCHANGED <<lines, todo>>
  ELSE /\ pc' = "paths"
       /\ lines' = r.lines
       /\ todo' = Visits(Paths(spec))
       /\ UNCHANGED error

\* Lines 17-29: the title, the summary, the Endpoints heading, and the
\* start of the iteration over spec.paths.
EmitHeader ==
  /\ pc = "header"
  /\ Headed(HeaderLines(spec))
  /\ UNCHANGED <<jsonContent, spec, result, now>>
  /\ UNCHANGED synthVars
  /\ UNCHANGED <<depth, appVars>>

\* Lines 33-156 once the lines of the block are known.
Emitted(r) ==
  IF Threw(r)
  THEN /\ pc' = "failed"
       /\ error' = r.thrown
       /\ lines' = r.lines
       /\ UNCHANGED todo
  ELSE /\ lines' = r.lines
       /\ todo' = Tail(todo)
       /\ UNCHANGED <<pc, error>>

\* Lines 30-157 for a key that is an HTTP method: one operation block.
EmitOperation ==
  /\ pc = "paths"
  /\ todo # <<>>
  /\ ~todo[1].thrown
  /\ IsHttpMethod(todo[1].method)
  /\ Emitted(OperationBlock(todo[1].path, todo[1].method, todo[1].op, spec, lines,
                            now, CallStackLimit))
  /\ UNCHANGED <<jsonContent, spec, result, now>>
  /\ UNCHANGED synthVars
  /\ UNCHANGED <<depth, appVars>>

\* Lines 31-32 for any other key under a path: nothing is emitted.
SkipKey ==
  /\ pc = "paths"
  /\ todo # <<>>
  /\ ~todo[1].thrown
  /\ ~IsHttpMethod(todo[1].method)
  /\ todo' = Tail(todo)
  /\ UNCHANGED <<jsonContent, pc, spec, lines, result, error, now>>
  /\ UNCHANGED synthVars
  /\ UNCHANGED <<depth, appVars>>

\* Line 30 on a path whose value is null: Object.entries(methods) throws.
FailPath ==
  /\ pc = "paths"
  /\ todo # <<>>
  /\ todo[1].thrown
  /\ pc' = "failed"
  /\ error' = EnumerateError
  /\ UNCHANGED <<jsonContent, spec, todo, lines, result, now>>
  /\ UNCHANGED synthVars
  /\ UNCHANGED <<depth, appVars>>

\* Line 161.
Return ==
  /\ pc = "paths"
  /\ todo = <<>>
  /\ pc' = "returned"
  /\ result' = Str(JoinLines(lines))
  /\ UNCHANGED <<jsonContent, spec, todo, lines, error, now>>
  /\ UNCHANGED synthVars
  /\ UNCHANGED <<depth, appVars>>

\* Time passes while a call runs (line 221 reads the clock).
Tick ==
  /\ pc \in {"start", "header", "paths", "synthesize"}
  /\ now < MaxClock
  /\ now' = now + 1
  /\ UNCHANGED <<jsonContent, pc, spec, todo, lines, result, error>>
  /\ UNCHANGED synthVars
  /\ UNCHANGED <<depth, appVars>>

\* Lines 167-232: one call generateExample(schema, root, onlyRequired), as
\* lines 89, 90 and 148 make it, with the parsed document as the root.
Synthesize ==
  /\ pc = "synthesize"
  /\ pc' = "synthesized"
  /\ example' = GenerateExample(schema, spec, onlyRequired, now, CallStackLimit)
  /\ UNCHANGED <<jsonContent, spec, todo, lines, result, error, now, schema,
                 onlyRequired>>
  /\ UNCHANGED <<depth, appVars>>

\* Lines 237-319 once the call is through.
Described(r) ==
  /\ pc' = IF Threw(r) THEN "failed" ELSE "described"
  /\ error' = r.thrown
  /\ lines' = r.lines

\* Lines 237-319: one call parseSchema(schema, root, lines, depth), as lines
\* 75 and 120 make it, with the parsed document as the root.
Describe ==
  /\ pc = "describe"
  /\ Described(ParseSchema(schema, spec, lines, depth, CallStackLimit))
  /\ UNCHANGED <<jsonContent, spec, todo, result, now, depth>>
  /\ UNCHANGED synthVars
  /\ UNCHANGED appVars


(***************************************************************************)
(* localConvertToLlmTxt as one call, the way the component makes it.       *)
(***************************************************************************)
RECURSIVE ConvertVisits(_, _, _, _)
\* Lines 29-159: the two forEach, until one of the visits throws.
ConvertVisits(visits, document, r, clock) ==
  IF Threw(r) THEN r
  ELSE IF visits = <<>> THEN r
  ELSE IF visits[1].thrown THEN Thrown(r.lines, EnumerateError)
  ELSE IF IsHttpMethod(visits[1].method)
  THEN ConvertVisits(Tail(visits), document,
                     OperationBlock(visits[1].path, visits[1].method, visits[1].op,
                                    document, r.lines, clock, CallStackLimit),
                     clock)
  ELSE ConvertVisits(Tail(visits), document, r, clock)
\* Lines 26-159 after the header.
AfterHeader(r, document, clock) ==
  IF Threw(r) THEN r ELSE ConvertVisits(Visits(Paths(document)), document, r, clock)
\* Line 161, or the exception on its way out.
Converted(r) == IF Threw(r) THEN Throw(r.thrown) ELSE Str(JoinLines(r.lines))
\* Lines 15-161 on the parsed document.
ConvertParsed(parsed, clock) ==
  IF IsThrow(parsed) THEN parsed
  ELSE Converted(AfterHeader(HeaderLines(parsed), parsed, clock))
\* Lines 7-162: the Markdown text, or the exception the call throws.
LocalConvertToLlmTxt(content, clock) == ConvertParsed(CatchParse(JSONParse(content)), clock)

(***************************************************************************)
(* The component App of src/App.tsx: handleFileUpload, its timeout and     *)
(* FileReader callbacks, and reset.  A callback runs to its end before     *)
(* another starts, and the updates of the state are applied in the order   *)
(* they are made.                                                          *)
(***************************************************************************)
\* The files the user selects: a name, the text, and whether the reader
\* can read it.
File(name, content, readable) == [name |-> name, content |-> content, readable |-> readable]
Files ==
  {File("a.json", TextOf(ScenarioA), TRUE),
   File("b.json", TextOf(DocOf(PlainOperation)), TRUE),
   File("bad.json", <<Tok("{"), TBad("not"), TBad("json")>>, TRUE),
   File("empty.json", TextOf(Obj(<<>>)), TRUE),
   File("gone.json", TextOf(ScenarioA), FALSE)}

\* App.tsx lines 30-34: JSON.parse(content), then the conversion.
ValidateAndConvert(content, clock) ==
  IF IsThrow(JSONParse(content)) THEN JSONParse(content)
  ELSE LocalConvertToLlmTxt(content, clock)
\* App.tsx lines 35-41: the state after the try of onload.  (The message
\* of an exception is written with the name of its class; none is empty,
\* so the fallback text of line 39 is never shown.)
Loaded(prev, markdown) ==
  IF IsThrow(markdown)
  THEN [prev EXCEPT !.error = Str(markdown.s), !.isLoading = FALSE]
  ELSE [prev EXCEPT !.result = markdown, !.isLoading = FALSE]

\* What the component leaves alone: the state of the engine's calls.
engineVars ==
  <<jsonContent, pc, spec, todo, lines, result, error, now, schema, onlyRequired,
    example, depth>>

\* App.tsx lines 17-23: a file is selected (the change event of the input
\* fires when its value changes); the state is updated and the timeout set.
\* The upload remembers whether another one was still pending.
HandleFileUpload(file) ==
  /\ pc = "app"
  /\ Len(uploads) < MaxUploads
  /\ file.name # fileInput
  /\ fileInput' = file.name
  /\ state' = [state EXCEPT !.isLoading = TRUE, !.error = Null,
                            !.fileName = Str(file.name)]
  /\ uploads' = Append(uploads,
                       [file |-> file, stage |-> "timer",
                        overlapped |-> \E j \in 1..Len(uploads) : uploads[j].stage # "done"])
  /\ UNCHANGED engineVars

\* App.tsx lines 24-27, 47: the timeout fires; the reader is created and
\* asked for the text.  Timeouts of the same delay fire in the order they
\* were set.
TimeoutFires(i) ==
  /\ pc = "app"
  /\ uploads[i].stage = "timer"
  /\ \A j \in 1..(i - 1) : uploads[j].stage # "timer"
  /\ uploads' = [uploads EXCEPT ![i].stage = "reading"]
  /\ UNCHANGED <<state, fileInput>>
  /\ UNCHANGED engineVars

\* App.tsx lines 27-42: reader.onload.
ReaderOnLoad(i) ==
  /\ pc = "app"
  /\ uploads[i].stage = "reading"
  /\ uploads[i].file.readable
  /\ state' = Loaded(state, ValidateAndConvert(uploads[i].file.content, now))
  /\ uploads' = [uploads EXCEPT ![i].stage = "done"]
  /\ UNCHANGED fileInput
  /\ UNCHANGED engineVars

\* App.tsx lines 44-46: reader.onerror.
ReaderOnError(i) ==
  /\ pc = "app"
  /\ uploads[i].stage = "reading"
  /\ ~uploads[i].file.readable
  /\ state' = [state EXCEPT !.error = Str("Failed to read file."), !.isLoading = FALSE]
  /\ uploads' = [uploads EXCEPT ![i].stage = "done"]
  /\ UNCHANGED fileInput
  /\ UNCHANGED engineVars

\* App.tsx lines 76-84: reset, behind the button that is rendered while
\* state.result is there (lines 139-146).
Reset ==
  /\ pc = "app"
  /\ Truthy(state.result)
  /\ state' = [isLoading |-> FALSE, error |-> Null, result |-> Null, fileName |-> Null]
  /\ fileInput' = ""
  /\ UNCHANGED uploads
  /\ UNCHANGED engineVars
\* The path of the body schema in the documents of one operation, POST /x.
BodySchemaOf(doc) == BodySchema(Prop(Prop(Prop(doc, "paths"), "/x"), "post"))

\* src/App.tsx lines 8-13: the state the component starts in.
InitialState == [isLoading |-> FALSE, error |-> Null, result |-> Null, fileName |-> Null]
\* The component at rest, while a call of the engine is looked at alone.
AppAtRest ==
  /\ state = InitialState
  /\ uploads = <<>>
  /\ fileInput = ""

Init ==
  /\ jsonContent \in Inputs
  /\ pc = "start"
  /\ spec = Undef
  /\ todo = <<>>
  /\ lines = <<>>
  /\ result = Undef
  /\ error = ""
  /\ now = 0
  /\ schema = Undef
  /\ onlyRequired = FALSE
  /\ example = Undef
  /\ depth = 0
  /\ AppAtRest

Next ==
  \/ ParseInput
  \/ EmitHeader
  \/ EmitOperation
  \/ SkipKey
  \/ FailPath
  \/ Return
  \/ Tick

Spec == Init /\ [][Next]_vars

\* generateExample taken alone: the document is parsed, and the call is
\* the one of lines 89-90 on the schema of its request body.
SynthInit ==
  /\ jsonContent \in {TextOf(doc) : doc \in SchemaDocuments}
  /\ pc = "synthesize"
  /\ spec = JSONParse(jsonContent)
  /\ todo = <<>>
  /\ lines = <<>>
  /\ result = Undef
  /\ error = ""
  /\ now = 0
  /\ schema = BodySchemaOf(JSONParse(jsonContent))
  /\ onlyRequired \in BOOLEAN
  /\ example = Undef
  /\ depth = 0
  /\ AppAtRest

SynthNext ==
  \/ Synthesize
  \/ Tick

SynthSpec == SynthInit /\ [][SynthNext]_vars


\* parseSchema taken alone: the document is parsed, and the call is the one
\* of line 75 (depth 0) or of line 120 (depth 1) on the schema of its
\* request body, after the line that precedes the description.
DescribeInit ==
  /\ jsonContent \in {TextOf(doc) : doc \in SchemaDocuments}
  /\ pc = "describe"
  /\ spec = JSONParse(jsonContent)
  /\ todo = <<>>
  /\ depth \in {0, 1}
  /\ lines = <<IF depth = 0 THEN Line(71, "**Request Body:**")
               ELSE Line(114, "**Response 200: ok**")>>
  /\ result = Undef
  /\ error = ""
  /\ now = 0
  /\ schema = BodySchemaOf(JSONParse(jsonContent))
  /\ onlyRequired = FALSE
  /\ example = Undef
  /\ AppAtRest

DescribeNext == Describe

DescribeSpec == DescribeInit /\ [][DescribeNext]_vars

\* The component App, from its first render.
AppInit ==
  /\ jsonContent = <<>>
  /\ pc = "app"
  /\ spec = Undef
  /\ todo = <<>>
  /\ lines = <<>>
  /\ result = Undef
  /\ error = ""
  /\ now = 0
  /\ schema = Undef
  /\ onlyRequired = FALSE
  /\ example = Undef
  /\ depth = 0
  /\ AppAtRest

AppNext ==
  \/ \E file \in Files : HandleFileUpload(file)
  \/ \E i \in 1..Len(uploads) : TimeoutFires(i)
  \/ \E i \in 1..Len(uploads) : ReaderOnLoad(i)
  \/ \E i \in 1..Len(uploads) : ReaderOnError(i)
  \/ Reset

AppSpec == AppInit /\ [][AppNext]_vars
(***************************************************************************)
(* The properties of the conversion (specification Spec).                  *)
(***************************************************************************)
\* The operations the conversion visits: the values under the keys of the
\* paths of the parsed document.
Operations == {Visits(Paths(spec))[i].op : i \in 1..Len(Visits(Paths(spec)))}
\* The responses of an operation.
ResponsesOf(op) == {Responses(op).e[i].val : i \in 1..Len(OwnEntries(Responses(op)))}
\* The schemas the conversion describes: of the request bodies and of the
\* responses.
DescribedSchemas ==
  {BodySchema(op) : op \in Operations}
    \cup UNION {{ContentSchema(ResponseContent(response)) : response \in ResponsesOf(op)} :
                  op \in Operations}

RECURSIVE HasDanglingRef(_, _)
\* The schema, as the document holds it, is or contains a $ref one of whose
\* segments is missing from the document.
HasDanglingRef(node, root) ==
  /\ IsObjectLike(node)
  /\ \/ /\ IsRefString(Prop(node, "$ref"))
        /\ Walk(root, SplitRef(Prop(node, "$ref").s)) = Undef
     \/ \E i \in 1..Len(node.e) : HasDanglingRef(node.e[i].val, root)

\* The lines a given line of the source pushed.
LinesAt(at) == SelectSeq(lines, LAMBDA line : line.at = at)

\* C1: on an input text that is not valid JSON the call fails with the
\* error "Invalid JSON format" before any output line is produced, and
\* returns no Markdown text, partial or complete.
C1_InvalidJsonFails ==
  jsonContent \in Malformed
    => /\ pc \in {"start", "failed"}
       /\ pc = "failed" => error = "Invalid JSON format"
       /\ lines = <<>>
       /\ result = Undef
\* The text '{not json' has failed.
C1_Witness ==
  /\ jsonContent = <<Tok("{"), TBad("not"), TBad("json")>>
  /\ pc = "failed"
  /\ error = "Invalid JSON format"

\* C2: a document in which the schema of a request body or of a response
\* is or contains a $ref with a missing segment is converted all the same:
\* the call returns, and the output holds the placeholder line of the $ref.
C2_DanglingRefConverts ==
  (\E node \in DescribedSchemas : HasDanglingRef(node, spec))
    => /\ pc # "failed"
       /\ pc = "returned" => LinesAt(249) # <<>>

\* C3: the only input on which the conversion fails is a text that is not
\* valid JSON: the conversion of a text that parses as a JSON document (an
\* object), whatever fields it lacks, does not fail.
C3_OnlyInvalidJsonFails ==
  pc = "failed" => jsonContent \in Malformed \/ spec.k # "object"

\* C4: the Describer and the Synthesizer terminate on every document, cyclic
\* schema graphs included: no conversion ends because the recursion went on
\* until the call stack was exhausted.
C4_CyclicSchemasTerminate ==
  pc = "failed" => error # StackOverflow.s

\* The pairs of a path and a key under it whose key, whatever its case, is
\* one of the seven method names, in the order of the document.
Recognised(key) ==
  \E m \in {"get", "post", "put", "delete", "patch", "options", "head"} :
    ToLowerCase(key) = m
ExpectedBlocks == SelectSeq(Visits(Paths(spec)), LAMBDA v : Recognised(v.method))
\* The lines of the source that push the fixed lines of an operation block:
\* the heading, Input, Output, Usage Examples, cURL, the fence, the command,
\* the closing fence, the rule.
BlockMarks == <<36, 41, 108, 142, 144, 145, 151, 152, 155>>
Marks ==
  SelectSeq(lines, LAMBDA line : \E j \in 1..Len(BlockMarks) : line.at = BlockMarks[j])
\* The summary of a heading: summary, else operationId, else 'No summary'.
SummaryOf(op) ==
  ToStr(Or(Prop(op, "summary"), Or(Prop(op, "operationId"), Str("No summary"))))
\* The i-th operation block of the output is the block of the i-th pair.
IsBlockOf(i, v) ==
  LET at(j) == Marks[Len(BlockMarks) * (i - 1) + j]
  IN  /\ \A j \in 1..Len(BlockMarks) : at(j).at = BlockMarks[j]
      /\ at(1).text = "### " \o ToUpperCase(v.method) \o " " \o v.path \o " - "
                        \o SummaryOf(v.op)
      /\ at(2).text = "#### Input"
      /\ at(3).text = "#### Output"
      /\ at(4).text = "#### Usage Examples"
      /\ at(5).text = "##### cURL"
      /\ at(6).text = Fence("bash")
      /\ at(8).text = Fence("")
      /\ at(9).text = "---"

\* C9: the returned output holds exactly one operation block per pair of a
\* path and a key that is, whatever its case, one of get, post, put, delete,
\* patch, options, head, and none for another key; the blocks are in the
\* order of the paths and then of the keys, and each block has, in this
\* order, its heading, Input, Output, Usage Examples with the fenced cURL
\* command, and the closing rule.
C9_OneBlockPerMethod ==
  pc = "returned"
    => /\ Len(Marks) = Len(BlockMarks) * Len(ExpectedBlocks)
       /\ \A i \in 1..Len(ExpectedBlocks) : IsBlockOf(i, ExpectedBlocks[i])
\* The document of three paths, with keys in both cases and keys that are no
\* methods, has been converted.
C9_Witness ==
  /\ pc = "returned"
  /\ jsonContent = TextOf(ManyOperations)
  /\ Len(ExpectedBlocks) = 8
  /\ Len(Visits(Paths(spec))) = 11

\* The responses of the parsed document.
AllResponses == UNION {ResponsesOf(op) : op \in Operations}
\* The entry of the content in which the schema of the response is found.
SchemaEntry(content) ==
  IF Truthy(OptGet(Prop(content, "application/json"), "schema"))
  THEN Prop(content, "application/json")
  ELSE IF Truthy(OptGet(Prop(content, "*/*"), "schema")) THEN Prop(content, "*/*")
  ELSE FirstValue(content)
\* The first named entry of `examples`.
FirstNamed(examples) ==
  IF OwnEntries(examples) = <<>> THEN Undef ELSE examples.e[1].val
\* The value the block is to show: the example of the entry, else the value
\* of its first named example, else the synthesized full example.
ChosenExample(content) ==
  IF Prop(SchemaEntry(content), "example") # Undef
  THEN Prop(SchemaEntry(content), "example")
  ELSE IF Prop(FirstNamed(Prop(SchemaEntry(content), "examples")), "value") # Undef
  THEN Prop(FirstNamed(Prop(SchemaEntry(content), "examples")), "value")
  ELSE GenerateExample(ContentSchema(content), spec, FALSE, now, CallStackLimit)
ShownAsChosen(content) ==
  /\ LinesAt(127) # <<>>
       => LinesAt(127) = <<Line(127, PrettyIndented(ChosenExample(content)))>>
  /\ ChosenExample(content) = Obj(<<>>) => LinesAt(127) = <<>>
  /\ IsObjectLike(ChosenExample(content)) /\ ChosenExample(content).e # <<>>
       => LinesAt(127) # <<>>

\* C10: for a response with a JSON schema, the value of the "Example
\* Response" block is the explicit example of the content entry, else the
\* value of the first named entry of its examples, else the synthesized full
\* example; the block is left out when that value is an empty object and is
\* there when it is an object that is not empty.  (Stated on the documents
\* of one response, where the block of the output is that response's.)
C10_ExamplePriority ==
  /\ pc = "returned"
  /\ Cardinality(AllResponses) = 1
  /\ \A response \in AllResponses : Truthy(ContentSchema(ResponseContent(response)))
  => \A response \in AllResponses : ShownAsChosen(ResponseContent(response))

(***************************************************************************)
(* The properties of generateExample (specification SynthSpec).            *)
(***************************************************************************)
\* The schema as the text of the document declares it: its members in the
\* order of the text.
DeclaredSchema ==
  BodySchemaOf(CHOOSE doc \in SchemaDocuments : TextOf(doc) = jsonContent)
\* The names of the declared properties, in the order of their declaration.
DeclaredNames == Keys(OwnEntries(Prop(DeclaredSchema, "properties")))
\* The names the `required` list of the schema holds.
RequiredNames ==
  {Prop(schema, "required").e[i].val.s :
     i \in 1..Len(OwnEntries(Prop(schema, "required")))}
Range(seq) == {seq[i] : i \in 1..Len(seq)}
\* The keys of a value.
KeySet(v) == Range(Keys(OwnEntries(v)))

\* An object schema node: of type object, or with properties.
IsObjectNode == Prop(schema, "type") = Str("object") \/ Prop(schema, "properties") # Undef
HasRefOrComposition ==
  \E keyword \in {"$ref", "allOf", "anyOf", "oneOf"} : Prop(schema, keyword) # Undef
HasExampleOrDefault ==
  \E keyword \in {"example", "default"} : Prop(schema, keyword) # Undef
\* What the synthesis of the schema of a declared property gives.
PropertyExample(name) ==
  GenerateExample(Prop(Prop(schema, "properties"), name), spec, onlyRequired, now,
                  CallStackLimit - 1)

\* C5, as claimed: in required-only mode what an object schema node gives,
\* when the call returns, is an object whose keys are a subset of its
\* `required` list and, when the node has no $ref and no allOf, anyOf or
\* oneOf, exactly that list.
C5_KeysAreRequiredList ==
  pc = "synthesized" /\ onlyRequired /\ IsObjectNode /\ ~IsThrow(example)
    => /\ example.k = "object"
       /\ KeySet(example) \subseteq RequiredNames
       /\ ~HasRefOrComposition => KeySet(example) = RequiredNames

\* C5, amended: in required-only mode an object schema node with no $ref,
\* no allOf, anyOf or oneOf, no example and no default gives an object whose
\* keys are exactly the declared properties that its `required` list names
\* (a subset of the list: a name it holds that is not declared gives no
\* key); when the synthesis of one of those properties throws (the stack
\* overflow of a cyclic schema), the call throws instead of returning.
C5_KeysAreDeclaredRequired ==
  pc = "synthesized" /\ onlyRequired /\ IsObjectNode
    /\ ~HasRefOrComposition /\ ~HasExampleOrDefault
    => IF \E name \in Range(DeclaredNames) \cap RequiredNames :
            IsThrow(PropertyExample(name))
       THEN IsThrow(example)
       ELSE /\ example.k = "object"
            /\ KeySet(example) = Range(DeclaredNames) \cap RequiredNames
            /\ KeySet(example) \subseteq RequiredNames
\* A required-only example that leaves out a declared property and has no
\* key for a required name that is not declared.
C5_Witness ==
  /\ pc = "synthesized" /\ onlyRequired /\ IsObjectNode
  /\ ~HasRefOrComposition /\ ~HasExampleOrDefault
  /\ DeclaredNames = <<"a", "b">>
  /\ RequiredNames = {"a", "z"}
  /\ KeySet(example) = {"a"}

RECURSIVE Ascending(_)
\* The index keys of a set, in ascending order.
Ascending(keys) ==
  IF keys = {} THEN <<>>
  ELSE LET least == CHOOSE k \in keys : \A other \in keys : IndexKeys[k] <= IndexKeys[other]
       IN  <<least>> \o Ascending(keys \ {least})
\* The order in which the own properties of an object are enumerated: the
\* names that are array indices in ascending order, then the other names in
\* the order of their declaration.
EnumerationOrder(names) ==
  Ascending({name \in Range(names) : IsIndexKey(name)})
    \o SelectSeq(names, LAMBDA name : ~IsIndexKey(name))

\* C6, as claimed: in full mode what an object schema node with N declared
\* properties and no $ref, allOf, anyOf or oneOf gives, when the call
\* returns, is an object whose keys are exactly the N declared names, in
\* declaration order.
C6_KeysInDeclarationOrder ==
  pc = "synthesized" /\ ~onlyRequired /\ IsObjectNode /\ ~HasRefOrComposition
    /\ ~IsThrow(example)
    => /\ example.k = "object"
       /\ Keys(example.e) = DeclaredNames

\* C6, amended: in full mode an object schema node with N declared
\* properties and no $ref, allOf, anyOf or oneOf, no example and no default
\* gives an object whose keys are exactly the N declared names, enumerated
\* as JavaScript enumerates own properties: the names that are array
\* indices first, in ascending order, then the others in declaration order;
\* when the synthesis of a property throws, the call throws instead.
C6_KeysInEnumerationOrder ==
  pc = "synthesized" /\ ~onlyRequired /\ IsObjectNode
    /\ ~HasRefOrComposition /\ ~HasExampleOrDefault
    => IF \E name \in Range(DeclaredNames) : IsThrow(PropertyExample(name))
       THEN IsThrow(example)
       ELSE /\ example.k = "object"
            /\ Len(example.e) = Len(DeclaredNames)
            /\ Keys(example.e) = EnumerationOrder(DeclaredNames)
\* A full example of a schema that declares "b" before "1".
C6_Witness ==
  /\ pc = "synthesized" /\ ~onlyRequired /\ IsObjectNode
  /\ ~HasRefOrComposition /\ ~HasExampleOrDefault
  /\ DeclaredNames = <<"b", "1">>
  /\ Keys(example.e) = <<"1", "b">>

\* What the synthesis of the children of allOf gives.
ChildExamples ==
  [i \in 1..Len(OwnEntries(Prop(schema, "allOf"))) |->
     GenerateExample(Prop(schema, "allOf").e[i].val, spec, onlyRequired, now,
                     CallStackLimit - 1)]
\* The children whose example is an object that holds the key.
Givers(key) ==
  {i \in 1..Len(ChildExamples) :
     IsObjectLike(ChildExamples[i]) /\ HasKey(ChildExamples[i].e, key)}
Last(set) == CHOOSE i \in set : \A j \in set : j <= i
\* An allOf node: the rule of allOf is the one that applies (no $ref).
IsAllOfNode ==
  ~Truthy(Prop(schema, "$ref")) /\ Prop(schema, "allOf").k = "array"

\* C7: an allOf node gives the shallow merge of the examples of its
\* children, left to right: every key of a child whose example is an object
\* is there, with the value of the last child that gives it, and a child
\* whose example is no object (a primitive, null, undefined) gives no key.
\* (An array is an object of JavaScript: its indices are its keys.  When
\* the synthesis of a child throws, so does the call.)
C7_AllOfMergesLeftToRight ==
  pc = "synthesized" /\ IsAllOfNode
    => IF \E i \in 1..Len(ChildExamples) : IsThrow(ChildExamples[i])
       THEN IsThrow(example)
       ELSE /\ example.k = "object"
            /\ KeySet(example)
                 = UNION {KeySet(ChildExamples[i]) :
                            i \in {j \in 1..Len(ChildExamples) :
                                     IsObjectLike(ChildExamples[j])}}
            /\ \A key \in KeySet(example) :
                 Prop(example, key) = Prop(ChildExamples[Last(Givers(key))], key)
\* Two object children with the key "b" in common, and a child that is no
\* object next to one that is.
C7_Witness ==
  /\ pc = "synthesized" /\ IsAllOfNode /\ ~onlyRequired
  /\ Len(ChildExamples) = 2
  /\ Givers("b") = {1, 2}
  /\ Prop(ChildExamples[1], "b") = Num(0)
  /\ Prop(example, "b") = Str("x")
  /\ KeySet(example) = {"a", "b", "c"}

\* The list of alternatives of the node, and the keyword that holds it.
AlternativesKeyword == IF Truthy(Prop(schema, "anyOf")) THEN "anyOf" ELSE "oneOf"
Alternatives == OwnEntries(Prop(schema, AlternativesKeyword))
\* A node of alternatives: no $ref, no allOf, and a list of alternatives.
IsAlternativesNode ==
  /\ ~Truthy(Prop(schema, "$ref"))
  /\ ~Truthy(Prop(schema, "allOf"))
  /\ Prop(schema, AlternativesKeyword).k = "array"
  /\ Alternatives # <<>>
\* The node with the alternatives after the first replaced by others.
WithOtherAlternatives(others) ==
  [schema EXCEPT !.e[KeyPos(schema.e, AlternativesKeyword)].val =
                   ArrayOf(<<Alternatives[1].val>> \o others)]
\* The lists that take the place of the remaining alternatives.
OtherAlternatives ==
  {<<>>, <<Typed("integer")>>, <<Null, ObjB>>, <<Ref("Loop"), Typed("boolean")>>}

\* C8: for a node with anyOf or oneOf (and no $ref or allOf), the example
\* is the example of the first listed alternative, for both values of the
\* flag, and it is the same when the remaining alternatives are replaced by
\* other schemas.
C8_FirstAlternativeOnly ==
  pc = "synthesized" /\ IsAlternativesNode
    => /\ example = GenerateExample(Alternatives[1].val, spec, onlyRequired, now,
                                    CallStackLimit - 1)
       /\ \A others \in OtherAlternatives :
            GenerateExample(WithOtherAlternatives(others), spec, onlyRequired, now,
                            CallStackLimit) = example
\* The example of anyOf [string, integer] is the one of string.
C8_Witness ==
  /\ pc = "synthesized" /\ IsAlternativesNode /\ onlyRequired
  /\ Len(Alternatives) = 2
  /\ Alternatives[1].val = Typed("string")
  /\ Alternatives[2].val = Typed("integer")
  /\ example = Str("string")


(***************************************************************************)
(* The properties of parseSchema (specification DescribeSpec).             *)
(***************************************************************************)
\* The lines the call pushed, after the line that was there before it.
Pushed == SubSeq(lines, 2, Len(lines))
\* What the description of a node at a depth pushes.
DescriptionOf(node, d) == ParseSchema(node, spec, <<>>, d, CallStackLimit - 1).lines
\* The node is a composition: it holds allOf, anyOf or oneOf.
IsComposition(node) ==
  \E keyword \in {"allOf", "anyOf", "oneOf"} : Prop(node, keyword) # Undef
\* The node is an object: of type object, or with properties.
IsObject(node) == Prop(node, "type") = Str("object") \/ Prop(node, "properties") # Undef
\* The line of a declared property of the schema at the depth of the call.
LineOfProperty(key, val) ==
  PropertyLine(key, val, Or(Prop(schema, "required"), Arr(<<>>)), depth)
\* What follows the line of a property, as claimed: the description of an
\* object, a $ref or a composition one level deeper; for an array the
\* Items line one level deeper and the description of the items two deeper.
FollowsProperty(val) ==
  IF IsObject(val) \/ Prop(val, "$ref") # Undef \/ IsComposition(val)
  THEN DescriptionOf(val, depth + 1)
  ELSE IF Prop(val, "type") = Str("array")
  THEN <<Line(292, Repeat("  ", depth + 1) \o "*Items:*")>>
         \o DescriptionOf(Prop(val, "items"), depth + 2)
  ELSE <<>>
RECURSIVE PropertiesDescribed(_)
PropertiesDescribed(props) ==
  IF props = <<>> THEN <<>>
  ELSE <<LineOfProperty(props[1].key, props[1].val)>>
         \o FollowsProperty(props[1].val)
         \o PropertiesDescribed(Tail(props))
\* The call described an object node: no $ref and no composition on it.
DescribedObjectNode ==
  pc = "described" /\ IsObjectNode /\ ~HasRefOrComposition

\* C11: the description of an object node at depth d is, for every declared
\* property in turn, one line at depth d, followed for a property that is
\* an object, a $ref or a composition by its description at depth d+1, and
\* for an array property by an Items line at depth d+1 and the description
\* of its items at depth d+2.
C11_PropertiesAreDescribed ==
  DescribedObjectNode
    => Pushed = PropertiesDescribed(OwnEntries(Prop(schema, "properties")))

(***************************************************************************)
(* The frame of a conversion (specification Spec).                         *)
(***************************************************************************)
\* A list of lines is what another one was, with lines pushed at its end.
OnlyAppended(before, after) ==
  /\ Len(before) <= Len(after)
  /\ SubSeq(after, 1, Len(before)) = before
\* One step of a conversion leaves the input text and, once it is parsed,
\* the document as they were, and at most pushes lines.
ReadsDocumentOnly ==
  /\ jsonContent' = jsonContent
  /\ spec # Undef => spec' = spec
  /\ OnlyAppended(lines, lines')

AllFinished ==
  /\ uploads # <<>>
  /\ \A i \in 1..Len(uploads) : uploads[i].stage = "done"
\* An upload has finished processing, and none is pending.
NonePending == \A i \in 1..Len(uploads) : uploads[i].stage = "done"

\* Two uploads were started before the first had finished.
Overlapped == \E i \in 1..Len(uploads) : uploads[i].overlapped

\* C13: after any sequence of uploads and resets, once the uploads have
\* finished processing the state holds a Markdown result or an error
\* message, never both: an upload that ends in an error leaves no result of
\* an earlier upload next to its error.  (Stated on the uploads made one
\* after the other, each started when the one before it had finished.)
C13_ResultOrError ==
  AllFinished /\ ~Overlapped => ~(state.result # Null /\ state.error # Null)

\* The state an upload of the file ends in when it runs alone from the
\* first render.
AloneState(file) ==
  IF file.readable
  THEN Loaded(InitialState, ValidateAndConvert(file.content, now))
  ELSE [InitialState EXCEPT !.error = Str("Failed to read file.")]
\* The file the state names.
NamedFile == CHOOSE file \in Files : Str(file.name) = state.fileName
\* C14: when two uploads are started before the first has finished, after
\* all the callbacks have run the result or the error the state shows is
\* the one of the file that fileName names, the file selected last; and
\* isLoading is never false while an upload is still pending.
C14_LastSelectedWins ==
  /\ Overlapped /\ AllFinished /\ state.fileName # Null
       => /\ state.result # Null => state.result = AloneState(NamedFile).result
          /\ state.error # Null => state.error = AloneState(NamedFile).error
  /\ Overlapped /\ ~NonePending => state.isLoading
=============================================================================
